---------------------------- MODULE Spec2Model ----------------------------
(***************************************************************************)
(* A model of libtas-movie: the .ltm movie codec.                          *)
(*                                                                         *)
(* Text is modelled character by character: a string is a sequence of      *)
(* one-character strings, and every parser and formatter of the crate is   *)
(* an operator that computes on those characters the way the Rust code     *)
(* does.  The archive reader (tar over gzip) is an external collaborator:  *)
(* it yields entries one at a time, each readable or not, with a name and  *)
(* a text.                                                                 *)
(***************************************************************************)
EXTENDS Integers, Sequences, FiniteSets, TLC

(***************************************************************************)
(* Options and results.  None is the empty sequence and Some(x) is <<x>>,  *)
(* so that values of both shapes can be compared.                          *)
(***************************************************************************)
None == <<>>
Some(x) == <<x>>
Ok(v) == [ok |-> TRUE, val |-> <<v>>, err |-> <<>>]
Err(e) == [ok |-> FALSE, val |-> <<>>, err |-> <<e>>]
Val(r) == r.val[1]
ErrOf(r) == r.err[1]

(***************************************************************************)
(* str primitives of the standard library, as the crate uses them.         *)
(***************************************************************************)
LF == "\n"
CR == "\r"

(* str::starts_with / str::strip_prefix test *)
StartsWith(s, p) == Len(s) >= Len(p) /\ SubSeq(s, 1, Len(p)) = p

(* str::ends_with *)
EndsWith(s, p) == Len(s) >= Len(p) /\ SubSeq(s, Len(s) - Len(p) + 1, Len(s)) = p

(* index of the first occurrence of the pattern p in s, 0 when there is none *)
Find(s, p) ==
  LET hits == {i \in 1..(Len(s) - Len(p) + 1) : \A k \in 1..Len(p) : s[i + k - 1] = p[k]}
  IN  IF hits = {} THEN 0 ELSE CHOOSE i \in hits : \A j \in hits : i <= j

(* str::split_once: None, or Some(<<before, after>>) around the first p *)
SplitOnce(s, p) ==
  LET i == Find(s, p)
  IN  IF i = 0 THEN None
      ELSE Some(<<SubSeq(s, 1, i - 1), SubSeq(s, i + Len(p), Len(s))>>)

(* str::split(char): the pieces between separators, at least one piece *)
RECURSIVE Split(_, _)
Split(s, c) ==
  LET i == Find(s, <<c>>)
  IN  IF i = 0 THEN <<s>>
      ELSE <<SubSeq(s, 1, i - 1)>> \o Split(SubSeq(s, i + 1, Len(s)), c)

(* str::lines: split_inclusive('\n'); a piece that ended in LF loses it and *)
(* then one CR before it; the last piece, which has no LF, is kept as it is *)
(* and is dropped when empty.                                               *)
Lines(s) ==
  LET pieces == Split(s, LF)
      n == Len(pieces)
      strip(l) == IF EndsWith(l, <<CR>>) THEN SubSeq(l, 1, Len(l) - 1) ELSE l
      ended == [i \in 1..(n - 1) |-> strip(pieces[i])]
  IN  IF pieces[n] = <<>> THEN ended ELSE ended \o <<pieces[n]>>

(* Iterator::skip(1) *)
Skip1(seq) == IF seq = <<>> THEN <<>> ELSE Tail(seq)

(* the concatenation of seqs[i], ..., seqs[Len(seqs)] *)
RECURSIVE ConcatFrom(_, _)
ConcatFrom(seqs, i) ==
  IF i > Len(seqs) THEN <<>> ELSE seqs[i] \o ConcatFrom(seqs, i + 1)

Concat(seqs) == ConcatFrom(seqs, 1)

(***************************************************************************)
(* Integer parsing and formatting (core::num from_str_radix, Display,      *)
(* LowerHex).  A numeral is checked against the type's largest numeral     *)
(* digit by digit, so the range test is exact for 32 and 64 bit types.     *)
(***************************************************************************)
DigitsLower == <<"0","1","2","3","4","5","6","7","8","9","a","b","c","d","e","f">>
DigitsUpper == <<"0","1","2","3","4","5","6","7","8","9","A","B","C","D","E","F">>

(* char::to_digit(radix): the digit's value, -1 when c is no digit *)
ToDigit(c, radix) ==
  LET hits == {i \in 1..radix : DigitsLower[i] = c \/ DigitsUpper[i] = c}
  IN  IF hits = {} THEN -1 ELSE (CHOOSE i \in hits : TRUE) - 1

RECURSIVE StripZeros(_)
StripZeros(ds) ==
  IF Len(ds) > 1 /\ Head(ds) = 0 THEN StripZeros(Tail(ds)) ELSE ds

(* numeral a denotes a larger number than numeral b (no leading zeros) *)
NumeralGt(a, b) ==
  \/ Len(a) > Len(b)
  \/ /\ Len(a) = Len(b)
     /\ \E i \in 1..Len(a) : a[i] > b[i] /\ \A j \in 1..(i - 1) : a[j] = b[j]

RECURSIVE NumeralValue(_, _)
NumeralValue(ds, radix) ==
  IF ds = <<>> THEN 0
  ELSE NumeralValue(SubSeq(ds, 1, Len(ds) - 1), radix) * radix + ds[Len(ds)]

U32MaxDec == <<4,2,9,4,9,6,7,2,9,5>>
U64MaxDec == <<1,8,4,4,6,7,4,4,0,7,3,7,0,9,5,5,1,6,1,5>>
I32MaxDec == <<2,1,4,7,4,8,3,6,4,7>>
I32MinDec == <<2,1,4,7,4,8,3,6,4,8>>
I64MaxDec == <<9,2,2,3,3,7,2,0,3,6,8,5,4,7,7,5,8,0,7>>
I64MinDec == <<9,2,2,3,3,7,2,0,3,6,8,5,4,7,7,5,8,0,8>>
U32MaxHex == <<15,15,15,15,15,15,15,15>>

(* from_str_radix: empty is an error; a lone sign is an error; '+' is      *)
(* always a sign and '-' only for signed types; every other character must *)
(* be a digit of the radix; the value must fit the type.                   *)
FromStrRadix(s, radix, signed, maxPos, maxNeg) ==
  IF s = <<>> THEN Err("Empty")
  ELSE IF s = <<"+">> \/ s = <<"-">> THEN Err("InvalidDigit")
  ELSE
    LET sign == IF Head(s) = "+" THEN "+"
                ELSE IF Head(s) = "-" /\ signed THEN "-" ELSE ""
        body == IF sign = "" THEN s ELSE Tail(s)
        ds == [i \in 1..Len(body) |-> ToDigit(body[i], radix)]
        num == StripZeros(ds)
    IN  IF \E i \in 1..Len(ds) : ds[i] = -1 THEN Err("InvalidDigit")
        ELSE IF sign = "-" /\ NumeralGt(num, maxNeg) THEN Err("NegOverflow")
        ELSE IF sign # "-" /\ NumeralGt(num, maxPos) THEN Err("PosOverflow")
        ELSE Ok(IF sign = "-" THEN 0 - NumeralValue(num, radix)
                ELSE NumeralValue(num, radix))

ParseU32(s) == FromStrRadix(s, 10, FALSE, U32MaxDec, <<0>>)
ParseU64(s) == FromStrRadix(s, 10, FALSE, U64MaxDec, <<0>>)
ParseI32(s) == FromStrRadix(s, 10, TRUE, I32MaxDec, I32MinDec)
ParseI64(s) == FromStrRadix(s, 10, TRUE, I64MaxDec, I64MinDec)
ParseHexU32(s) == FromStrRadix(s, 16, FALSE, U32MaxHex, <<0>>)

RECURSIVE FormatRadix(_, _)
FormatRadix(n, radix) ==
  IF n < radix THEN <<DigitsLower[n + 1]>>
  ELSE FormatRadix(n \div radix, radix) \o <<DigitsLower[(n % radix) + 1]>>

(* Display of an integer: decimal, '-' before a negative value *)
FormatDec(n) == IF n < 0 THEN <<"-">> \o FormatRadix(0 - n, 10) ELSE FormatRadix(n, 10)

(* {:x} of a u32 *)
FormatHex(n) == FormatRadix(n, 16)

GeneralMarker == <<"[","G","e","n","e","r","a","l","]">>
TimetrackMarker == <<"[","m","a","i","n","t","h","r","e","a","d","_","t","i","m","e","t","r","a","c","k","]">>
NotTwoGroups == <<"n","o","t"," ","t","w","o"," ","g","r","o","u","p","s">>
StrTrue == <<"t","r","u","e">>
StrFalse == <<"f","a","l","s","e">>

(* The fixed schema of the [General] group: key literal, field, declared type. *)
GeneralSchema ==
  <<
    [key |-> <<"a","u","t","h","o","r","s">>,
     field |-> "authors", type |-> "String"],
    [key |-> <<"a","u","t","o","_","r","e","s","t","a","r","t">>,
     field |-> "auto_restart", type |-> "bool"],
    [key |-> <<"f","r","a","m","e","_","c","o","u","n","t">>,
     field |-> "frame_count", type |-> "u64"],
    [key |-> <<"f","r","a","m","e","r","a","t","e","_","d","e","n">>,
     field |-> "framerate_den", type |-> "u64"],
    [key |-> <<"f","r","a","m","e","r","a","t","e","_","n","u","m">>,
     field |-> "framerate_num", type |-> "u64"],
    [key |-> <<"g","a","m","e","_","n","a","m","e">>,
     field |-> "game_name", type |-> "String"],
    [key |-> <<"i","n","i","t","i","a","l","_","m","o","n","o","t","o","n","i","c","_","t","i","m","e","_","n","s","e","c">>,
     field |-> "initial_monotonic_time_nsec", type |-> "u64"],
    [key |-> <<"i","n","i","t","i","a","l","_","m","o","n","o","t","o","n","i","c","_","t","i","m","e","_","s","e","c">>,
     field |-> "initial_monotonic_time_sec", type |-> "u64"],
    [key |-> <<"i","n","i","t","i","a","l","_","t","i","m","e","_","n","s","e","c">>,
     field |-> "initial_time_nsec", type |-> "u64"],
    [key |-> <<"i","n","i","t","i","a","l","_","t","i","m","e","_","s","e","c">>,
     field |-> "initial_time_sec", type |-> "u64"],
    [key |-> <<"l","e","n","g","t","h","_","n","s","e","c">>,
     field |-> "length_nsec", type |-> "u64"],
    [key |-> <<"l","e","n","g","t","h","_","s","e","c">>,
     field |-> "length_sec", type |-> "u64"],
    [key |-> <<"l","i","b","t","a","s","_","m","a","j","o","r","_","v","e","r","s","i","o","n">>,
     field |-> "libtas_major_version", type |-> "u32"],
    [key |-> <<"l","i","b","t","a","s","_","m","i","n","o","r","_","v","e","r","s","i","o","n">>,
     field |-> "libtas_minor_version", type |-> "u32"],
    [key |-> <<"l","i","b","t","a","s","_","p","a","t","c","h","_","v","e","r","s","i","o","n">>,
     field |-> "libtas_patch_version", type |-> "u32"],
    [key |-> <<"m","d","5">>,
     field |-> "md5", type |-> "String"],
    [key |-> <<"m","o","u","s","e","_","s","u","p","p","o","r","t">>,
     field |-> "mouse_support", type |-> "bool"],
    [key |-> <<"n","b","_","c","o","n","t","r","o","l","l","e","r","s">>,
     field |-> "nb_controllers", type |-> "u32"],
    [key |-> <<"r","e","r","e","c","o","r","d","_","c","o","u","n","t">>,
     field |-> "rerecord_count", type |-> "u64"],
    [key |-> <<"s","a","v","e","s","t","a","t","e","_","f","r","a","m","e","_","c","o","u","n","t">>,
     field |-> "savestate_frame_count", type |-> "u64"],
    [key |-> <<"v","a","r","i","a","b","l","e","_","f","r","a","m","e","r","a","t","e">>,
     field |-> "variable_framerate", type |-> "bool"] >>

(* The fixed schema of the [mainthread_timetrack] group. *)
TimetrackSchema ==
  <<
    [key |-> <<"G","e","t","T","i","c","k","C","o","u","n","t">>,
     field |-> "get_tick_count", type |-> "i64"],
    [key |-> <<"G","e","t","T","i","c","k","C","o","u","n","t","6","4">>,
     field |-> "get_tick_count64", type |-> "i64"],
    [key |-> <<"Q","u","e","r","y","P","e","r","f","o","r","m","a","n","c","e","C","o","u","n","t","e","r">>,
     field |-> "query_performance_counter", type |-> "i64"],
    [key |-> <<"c","l","o","c","k">>,
     field |-> "clock", type |-> "i64"],
    [key |-> <<"c","l","o","c","k","_","g","e","t","t","i","m","e","_","m","o","n","o","t","o","n","i","c">>,
     field |-> "clock_gettime_monotonic", type |-> "i64"],
    [key |-> <<"c","l","o","c","k","_","g","e","t","t","i","m","e","_","r","e","a","l">>,
     field |-> "clock_gettime_real", type |-> "i64"],
    [key |-> <<"g","e","t","t","i","m","e","o","f","d","a","y">>,
     field |-> "gettimeofday", type |-> "i64"],
    [key |-> <<"s","d","l","_","g","e","t","p","e","r","f","o","r","m","a","n","c","e","c","o","u","n","t","e","r">>,
     field |-> "sdl_getperformancecounter", type |-> "i64"],
    [key |-> <<"s","d","l","_","g","e","t","t","i","c","k","s">>,
     field |-> "sdl_getticks", type |-> "i64"],
    [key |-> <<"t","i","m","e">>,
     field |-> "time", type |-> "i64"] >>

(* GeneralConfig::default(): empty strings, false, zero. *)
GeneralConfigDefault ==
  [authors |-> <<>>,
   auto_restart |-> FALSE,
   frame_count |-> 0,
   framerate_den |-> 0,
   framerate_num |-> 0,
   game_name |-> <<>>,
   initial_monotonic_time_nsec |-> 0,
   initial_monotonic_time_sec |-> 0,
   initial_time_nsec |-> 0,
   initial_time_sec |-> 0,
   length_nsec |-> 0,
   length_sec |-> 0,
   libtas_major_version |-> 0,
   libtas_minor_version |-> 0,
   libtas_patch_version |-> 0,
   md5 |-> <<>>,
   mouse_support |-> FALSE,
   nb_controllers |-> 0,
   rerecord_count |-> 0,
   savestate_frame_count |-> 0,
   variable_framerate |-> FALSE]

(* TimetrackConfig::default(): all zero. *)
TimetrackConfigDefault ==
  [get_tick_count |-> 0,
   get_tick_count64 |-> 0,
   query_performance_counter |-> 0,
   clock |-> 0,
   clock_gettime_monotonic |-> 0,
   clock_gettime_real |-> 0,
   gettimeofday |-> 0,
   sdl_getperformancecounter |-> 0,
   sdl_getticks |-> 0,
   time |-> 0]

(* bool::from_str accepts exactly "true" and "false" *)
ParseBool(s) ==
  IF s = StrTrue THEN Ok(TRUE) ELSE IF s = StrFalse THEN Ok(FALSE) ELSE Err("ParseBoolError")

(* value.parse::<$type>() for the types the schemas declare *)
ParseValue(type, value) ==
  CASE type = "String" -> Ok(value)
    [] type = "bool" -> ParseBool(value)
    [] type = "u32" -> ParseU32(value)
    [] type = "u64" -> ParseU64(value)
    [] type = "i64" -> ParseI64(value)

(* Display of a field value *)
FormatValue(type, v) ==
  CASE type = "String" -> v
    [] type = "bool" -> (IF v THEN StrTrue ELSE StrFalse)
    [] type \in {"u32", "u64", "i64"} -> FormatDec(v)

(* match key { $key => ... , _ => {} }: the schema row of a key, 0 if none *)
SchemaRow(schema, key) ==
  IF \E i \in 1..Len(schema) : schema[i].key = key
  THEN CHOOSE i \in 1..Len(schema) : schema[i].key = key
  ELSE 0

(* ParseLines as a lenient decoder would have it: a line without '=' is skipped *)
RECURSIVE ParseLines_Lenient(_, _, _, _)
ParseLines_Lenient(lines, i, config, schema) ==
  IF i > Len(lines) THEN Ok(config)
  ELSE
    LET line == lines[i]
        kv == SplitOnce(line, <<"=">>)
    IN  IF kv = None THEN ParseLines_Lenient(lines, i + 1, config, schema)
        ELSE
          LET key == kv[1][1]
              value == kv[1][2]
              row == SchemaRow(schema, key)
          IN  IF row = 0 THEN ParseLines_Lenient(lines, i + 1, config, schema)
              ELSE
                LET parsed == ParseValue(schema[row].type, value)
                IN  IF ~parsed.ok THEN Err(key)
                    ELSE ParseLines_Lenient(lines, i + 1,
                           [config EXCEPT ![schema[row].field] = Val(parsed)], schema)

(* ParseLines as a closed schema would have it: an unknown key is an error *)
RECURSIVE ParseLines_RejectsUnknown(_, _, _, _)
ParseLines_RejectsUnknown(lines, i, config, schema) ==
  IF i > Len(lines) THEN Ok(config)
  ELSE
    LET line == lines[i]
        kv == SplitOnce(line, <<"=">>)
    IN  IF kv = None THEN Err(line)
        ELSE
          LET key == kv[1][1]
              value == kv[1][2]
              row == SchemaRow(schema, key)
          IN  IF row = 0 THEN Err(key)
              ELSE
                LET parsed == ParseValue(schema[row].type, value)
                IN  IF ~parsed.ok THEN Err(key)
                    ELSE ParseLines_RejectsUnknown(lines, i + 1,
                           [config EXCEPT ![schema[row].field] = Val(parsed)], schema)

(* the body of the loop "for line in s.lines().skip(1)", from line i on *)
RECURSIVE ParseLines(_, _, _, _)
ParseLines(lines, i, config, schema) ==
  IF i > Len(lines) THEN Ok(config)
  ELSE
    LET line == lines[i]
        kv == SplitOnce(line, <<"=">>)
    IN  IF kv = None THEN Err(line)
        ELSE
          LET key == kv[1][1]
              value == kv[1][2]
              row == SchemaRow(schema, key)
          IN  IF row = 0 THEN ParseLines(lines, i + 1, config, schema)
              ELSE
                LET parsed == ParseValue(schema[row].type, value)
                IN  IF ~parsed.ok THEN Err(key)
                    ELSE ParseLines(lines, i + 1,
                           [config EXCEPT ![schema[row].field] = Val(parsed)], schema)

(* the group header test of impl_str_io's from_str *)
HeaderMatches(s, marker) == StartsWith(s, marker)

(* impl_str_io!: FromStr for a group *)
impl_str_io_from_str(s, marker, schema, default) ==
  IF ~HeaderMatches(s, marker) THEN Err(marker)
  ELSE ParseLines(Skip1(Lines(s)), 1, default, schema)

(* impl_str_io!: Display for a group *)
impl_str_io_fmt(config, marker, schema) ==
  marker \o <<LF>> \o
  Concat([i \in 1..Len(schema) |->
            schema[i].key \o <<"=">> \o
            FormatValue(schema[i].type, config[schema[i].field]) \o <<LF>>])

GeneralConfig_from_str(s) ==
  impl_str_io_from_str(s, GeneralMarker, GeneralSchema, GeneralConfigDefault)

GeneralConfig_fmt(c) == impl_str_io_fmt(c, GeneralMarker, GeneralSchema)

TimetrackConfig_from_str(s) ==
  impl_str_io_from_str(s, TimetrackMarker, TimetrackSchema, TimetrackConfigDefault)

TimetrackConfig_fmt(c) == impl_str_io_fmt(c, TimetrackMarker, TimetrackSchema)

ConfigDefault ==
  [general |-> GeneralConfigDefault, mainthread_timetrack |-> TimetrackConfigDefault]

(* Display for Config: writeln!("{}", general) then the timetrack group *)
Config_fmt(c) ==
  GeneralConfig_fmt(c.general) \o <<LF>> \o TimetrackConfig_fmt(c.mainthread_timetrack)

(* FromStr for Config *)
Config_from_str(s) ==
  LET halves == SplitOnce(s, <<LF, LF>>)
  IN  IF halves = None THEN Err(NotTwoGroups)
      ELSE
        LET general == GeneralConfig_from_str(halves[1][1])
        IN  IF ~general.ok THEN general
            ELSE
              LET timetrack == TimetrackConfig_from_str(halves[1][2])
              IN  IF ~timetrack.ok THEN timetrack
                  ELSE Ok([general |-> Val(general),
                           mainthread_timetrack |-> Val(timetrack)])

(***************************************************************************)
(* inputs.rs: keyboard, mouse, frame line and sequence of frames.          *)
(* InvalidInputsError is [variant, str].                                   *)
(***************************************************************************)
LineError(s) == [variant |-> "Line", str |-> s]
KeyboardError(s) == [variant |-> "Keyboard", str |-> s]
MouseError(s) == [variant |-> "Mouse", str |-> s]

(* s.split(':').map(|s| u32::from_str_radix(s, 16)).collect::<Result<Vec, _>>() *)
ParseKeys(s) ==
  LET pieces == Split(s, ":")
      parsed == [i \in 1..Len(pieces) |-> ParseHexU32(pieces[i])]
  IN  IF \E i \in 1..Len(parsed) : ~parsed[i].ok THEN Err("ParseIntError")
      ELSE Ok([i \in 1..Len(parsed) |-> Val(parsed[i])])

(* FromStr for KeyboardInput; the value is the Vec<u32> of keys *)
KeyboardInput_from_str(s) ==
  IF ~StartsWith(s, <<"K">>) THEN Err(KeyboardError(s))
  ELSE
    LET rest == Tail(s)
        keys == ParseKeys(rest)
    IN  IF ~keys.ok THEN Err(KeyboardError(rest)) ELSE Ok(Val(keys))

(* Display for KeyboardInput *)
KeyboardInput_fmt(keys) ==
  <<"K">> \o
  Concat([idx \in 1..Len(keys) |->
            (IF idx # 1 THEN <<":">> ELSE <<>>) \o FormatHex(keys[idx])])

(* FromStr for ReferenceMode *)
ReferenceMode_from_str(s) ==
  IF s = <<"A">> THEN Ok("Absolute")
  ELSE IF s = <<"R">> THEN Ok("Relative")
  ELSE Err("()")

(* Display for ReferenceMode *)
ReferenceMode_fmt(m) == IF m = "Absolute" THEN <<"A">> ELSE <<"R">>

(* A character outside ASCII is written by its code point; its UTF-8      *)
(* encoding has two bytes, neither of which is the byte of '.'.           *)
EAcute == "U+00E9"

(* the UTF-8 bytes of a character: an ASCII character is its own byte *)
Utf8(c) == IF c = EAcute THEN <<"0xC3", "0xA9">> ELSE <<c>>

(* str::as_bytes *)
AsBytes(s) == Concat([i \in 1..Len(s) |-> Utf8(s[i])])

(* FromStr for MouseInput: tokens.next() is None when the tokens ran out *)
MouseInput_from_str(s) ==
  IF ~StartsWith(s, <<"M">>) THEN Err(MouseError(s))
  ELSE
    LET rest == Tail(s)
        tokens == Split(rest, ":")
        fail == Err(MouseError(rest))
    IN  IF Len(tokens) < 1 THEN fail
        ELSE IF ~ParseI32(tokens[1]).ok THEN fail
        ELSE IF Len(tokens) < 2 THEN fail
        ELSE IF ~ParseI32(tokens[2]).ok THEN fail
        ELSE IF Len(tokens) < 3 THEN fail
        ELSE IF ~ReferenceMode_from_str(tokens[3]).ok THEN fail
        ELSE IF Len(tokens) < 4 THEN fail
        ELSE
          LET clicks == AsBytes(tokens[4])
          IN  IF Len(clicks) # 5 THEN fail
              ELSE Ok([xpos |-> Val(ParseI32(tokens[1])),
                       ypos |-> Val(ParseI32(tokens[2])),
                       reference_mode |-> Val(ReferenceMode_from_str(tokens[3])),
                       left_click |-> clicks[1] # ".",
                       middle_click |-> clicks[2] # ".",
                       right_click |-> clicks[3] # ".",
                       button4 |-> clicks[4] # ".",
                       button5 |-> clicks[5] # "."])

(* Display for MouseInput *)
MouseInput_fmt(m) ==
  <<"M">> \o FormatDec(m.xpos) \o <<":">> \o FormatDec(m.ypos) \o <<":">> \o
  ReferenceMode_fmt(m.reference_mode) \o <<":">> \o
  <<IF m.left_click THEN "1" ELSE ".",
    IF m.middle_click THEN "2" ELSE ".",
    IF m.right_click THEN "3" ELSE ".",
    IF m.button4 THEN "4" ELSE ".",
    IF m.button5 THEN "5" ELSE ".">> \o <<":", "0">>

(* Input::default(): keyboard None, mouse None *)
InputDefault == [keyboard |-> None, mouse |-> None]

(* ParseSections with the reserved markers C, F, T not recognised *)
RECURSIVE ParseSections_RejectsReserved(_, _, _, _)
ParseSections_RejectsReserved(sections, i, input, line) ==
  IF i > Len(sections) THEN Ok(input)
  ELSE
    LET section == sections[i]
        first == IF section = <<>> THEN "" ELSE Head(section)
    IN  CASE first = "K" ->
               LET k == KeyboardInput_from_str(section)
               IN  IF ~k.ok THEN k
                   ELSE ParseSections_RejectsReserved(sections, i + 1,
                          [input EXCEPT !.keyboard = Some(Val(k))], line)
          [] first = "M" ->
               LET m == MouseInput_from_str(section)
               IN  IF ~m.ok THEN m
                   ELSE ParseSections_RejectsReserved(sections, i + 1,
                          [input EXCEPT !.mouse = Some(Val(m))], line)
          [] OTHER -> Err(LineError(line))

(* the loop "for section in line.split('|')" of Input::from_str, from i on *)
RECURSIVE ParseSections(_, _, _, _)
ParseSections(sections, i, input, line) ==
  IF i > Len(sections) THEN Ok(input)
  ELSE
    LET section == sections[i]
        first == IF section = <<>> THEN "" ELSE Head(section)
    IN  CASE first = "K" ->
               LET k == KeyboardInput_from_str(section)
               IN  IF ~k.ok THEN k
                   ELSE ParseSections(sections, i + 1,
                          [input EXCEPT !.keyboard = Some(Val(k))], line)
          [] first = "M" ->
               LET m == MouseInput_from_str(section)
               IN  IF ~m.ok THEN m
                   ELSE ParseSections(sections, i + 1,
                          [input EXCEPT !.mouse = Some(Val(m))], line)
          [] first \in {"C", "F", "T"} ->
               ParseSections(sections, i + 1, input, line)
          [] OTHER -> Err(LineError(line))

(* IsEmptyFrame with the marker twice instead of once *)
IsEmptyFrame_Twice(s) == s = <<"|", "|">>

(* the line "|" alone is the frame with no input *)
IsEmptyFrame(s) == s = <<"|">>

(* FromStr for Input *)
Input_from_str(s) ==
  IF IsEmptyFrame(s) THEN Ok(InputDefault)
  ELSE IF ~StartsWith(s, <<"|">>) THEN Err(LineError(s))
  ELSE
    LET line1 == Tail(s)
    IN  IF ~EndsWith(line1, <<"|">>) THEN Err(LineError(line1))
        ELSE
          LET line == SubSeq(line1, 1, Len(line1) - 1)
          IN  ParseSections(Split(line, "|"), 1, InputDefault, line)

(* Display for Input *)
Input_fmt(input) ==
  <<"|">> \o
  (IF input.keyboard # None THEN KeyboardInput_fmt(input.keyboard[1]) \o <<"|">> ELSE <<>>) \o
  (IF input.mouse # None THEN MouseInput_fmt(input.mouse[1]) \o <<"|">> ELSE <<>>)

(* ParseFrames with break in place of continue: a line that is no frame *)
(* ends the loop                                                         *)
RECURSIVE ParseFrames_StopsAtOther(_, _, _)
ParseFrames_StopsAtOther(lines, i, inputs) ==
  IF i > Len(lines) THEN Ok(inputs)
  ELSE IF ~StartsWith(lines[i], <<"|">>) THEN Ok(inputs)
  ELSE
    LET frame == Input_from_str(lines[i])
    IN  IF ~frame.ok THEN frame
        ELSE ParseFrames_StopsAtOther(lines, i + 1, Append(inputs, Val(frame)))

(* the loop "for line in s.split('\n')" of Inputs::from_str, from i on *)
RECURSIVE ParseFrames(_, _, _)
ParseFrames(lines, i, inputs) ==
  IF i > Len(lines) THEN Ok(inputs)
  ELSE IF ~StartsWith(lines[i], <<"|">>) THEN ParseFrames(lines, i + 1, inputs)
  ELSE
    LET frame == Input_from_str(lines[i])
    IN  IF ~frame.ok THEN frame
        ELSE ParseFrames(lines, i + 1, Append(inputs, Val(frame)))

(* FromStr for Inputs *)
Inputs_from_str(s) == ParseFrames(Split(s, LF), 1, <<>>)

(* Display for Inputs: writeln! of every frame *)
Inputs_fmt(inputs) ==
  Concat([i \in 1..Len(inputs) |-> Input_fmt(inputs[i]) \o <<LF>>])

(***************************************************************************)
(* movie.rs: LibTASMovie, compress and load_movie.                         *)
(***************************************************************************)
NameConfig == "config.ini"
NameInputs == "inputs"
NameAnnotations == "annotations.txt"
NameEditor == "editor.ini"
MemberNames == <<NameConfig, NameInputs, NameAnnotations, NameEditor>>

(* LibTASMovie::default() *)
MovieDefault ==
  [config |-> ConfigDefault, inputs |-> <<>>, annotations |-> <<>>, editor |-> <<>>]

(* An entry as the archive reader yields it.  status: "ok"; "entry_err",   *)
(* the iterator item is Err; "read_err", read_to_string fails; "path_err", *)
(* entry.path() is Err.                                                    *)
Entry(status, name, text) == [status |-> status, name |-> name, text |-> text]

(* LibTASMovie::compress: the four members in fixed order *)
compress(m) ==
  << Entry("ok", NameConfig, Config_fmt(m.config)),
     Entry("ok", NameInputs, Inputs_fmt(m.inputs)),
     Entry("ok", NameAnnotations, m.annotations),
     Entry("ok", NameEditor, m.editor) >>

(* LoadError: kind and, for InvalidConfig and InvalidInputs, the cause *)
LoadError(kind, cause) == [kind |-> kind, cause |-> cause]

NoResult == [ok |-> FALSE, val |-> <<>>, err |-> <<>>]

(* the metadata of the end-to-end scenario, in non-canonical (short) form *)
ConfigPlain ==
  <<"[","G","e","n","e","r","a","l","]","\n","a","u","t","h","o","r","s","=","a","b","\n","f","r","a","m","e","_","c","o","u","n","t","=","4","5","6","\n","m","o","u","s","e","_","s","u","p","p","o","r","t","=","t","r","u","e","\n","\n","[","m","a","i","n","t","h","r","e","a","d","_","t","i","m","e","t","r","a","c","k","]","\n","t","i","m","e","=","-","1","\n">>

(* a config whose authors line ends CR CR LF: the value keeps one CR *)
ConfigCR ==
  <<"[","G","e","n","e","r","a","l","]","\n","a","u","t","h","o","r","s","=","a","\r","\r","\n","r","e","r","e","c","o","r","d","_","c","o","u","n","t","=","+","7","\n","\n","[","m","a","i","n","t","h","r","e","a","d","_","t","i","m","e","t","r","a","c","k","]","\n","c","l","o","c","k","=","-","0","2","\n">>

(* a config whose frame_count is no number *)
ConfigBad ==
  <<"[","G","e","n","e","r","a","l","]","\n","f","r","a","m","e","_","c","o","u","n","t","=","x","\n","\n","[","m","a","i","n","t","h","r","e","a","d","_","t","i","m","e","t","r","a","c","k","]","\n">>

(* frames with a repeated key, upper-case hex, a reserved T sub-field, a mouse and a comment line *)
InputsGood ==
  <<"|","K","7","a",":","7","A","|","T","1","|","\n","#","c","\n","|","\n","|","M","+","1",":","-","2",":","R",":","x",".",".",".",".",":","0","|","K","+","f","f","5","3","|","\n">>

(* a frame with an unknown sub-field marker *)
InputsBad ==
  <<"|","K","7","a","|","\n","|","X","|","\n">>

(* annotations.txt of the end-to-end scenario *)
AnnotationsText ==
  <<"h","e","l","l","o">>

(* editor.ini of the end-to-end scenario *)
EditorText ==
  <<>>

(* the text of an unexpected entry *)
ExtraText ==
  <<"x">>

(***************************************************************************)
(* Bounds of the model.                                                    *)
(***************************************************************************)
(* entries a movie file holds at most *)
MaxEntries == 5
(* calls of load_movie in one run: the file, then what compress wrote *)
MaxLoads == 2
(* lines after the header in a group text given to a group decoder *)
MaxLines == 2
(* sub-field tokens in a frame line given to the frame decoder *)
MaxTokens == 2
(* physical lines in an inputs text given to the sequence decoder *)
MaxInputLines == 3

(* what a movie file may yield as its next entry *)
FileEntries ==
  { Entry("ok", NameConfig, ConfigPlain),
    Entry("ok", NameConfig, ConfigCR),
    Entry("ok", NameConfig, ConfigBad),
    Entry("ok", NameInputs, InputsGood),
    Entry("ok", NameInputs, InputsBad),
    Entry("ok", NameAnnotations, AnnotationsText),
    Entry("ok", NameEditor, EditorText),
    Entry("ok", "extra.txt", ExtraText),
    Entry("entry_err", "", <<>>),
    Entry("read_err", NameConfig, <<>>),
    Entry("path_err", "", ExtraText) }

(* Sessions a consumer builds directly, without decoding: the default one,  *)
(* one with a keyboard that holds no key, one with a newline in a string.   *)
BuiltSessions ==
  { MovieDefault,
    [MovieDefault EXCEPT !.inputs = <<[keyboard |-> Some(<<>>), mouse |-> None]>>],
    [MovieDefault EXCEPT !.config.general.authors = <<"a", LF, "b">>],
    [MovieDefault EXCEPT !.inputs = <<[keyboard |-> Some(<<122, 65363>>), mouse |-> None],
                                     InputDefault>>,
                         !.annotations = AnnotationsText] }

(* first lines of a group text: the two markers, a marker with extra characters, a marker in the wrong case *)
SectionHeaders ==
  { <<"[","G","e","n","e","r","a","l","]">>,
    <<"[","m","a","i","n","t","h","r","e","a","d","_","t","i","m","e","t","r","a","c","k","]">>,
    <<"[","G","e","n","e","r","a","l","]","x">>,
    <<"[","g","e","n","e","r","a","l","]">> }

(* lines of a group text: declared keys with good and bad values, unknown keys, lines without '=' *)
SectionLines ==
  { <<"a","u","t","h","o","r","s","=","a">>,
    <<"f","r","a","m","e","_","c","o","u","n","t","=","1","2">>,
    <<"f","r","a","m","e","_","c","o","u","n","t","=","x">>,
    <<"A","u","t","h","o","r","s","=","b">>,
    <<"t","i","m","e","=","-","1">>,
    <<>>,
    <<"#"," ","c">>,
    <<"a","u","t","h","o","r","s">> }

(* sub-field tokens of a frame line *)
FrameTokens ==
  { <<"K">>,
    <<"K","7","a">>,
    <<"K","7","a",":","f","f","5","3">>,
    <<"K","z","z">>,
    <<"M","1","6","6",":","2","7","0",":","A",":","1",".",".",".",".",":","0">>,
    <<"M","1",":","2",":","A",":","1",".",".",".">>,
    <<"C","K","z","z">>,
    <<"F">>,
    <<"T","5">>,
    <<>>,
    <<"X">> }

(* mouse tokens: button fields of 5 characters and of other lengths, with *)
(* characters other than the digits, and with a character outside ASCII   *)
MouseTokens ==
  { <<"M","-","1",":","+","2",":","R",":","x",".","y",".","z",":","0">>,
    <<"M","1",":","2",":","A",":",".",".",".",".",".",":","0">>,
    <<"M","1",":","2",":","A",":","1","2","3","4","5">>,
    <<"M","1",":","2",":","A",":","1",".",".",".",".","5",":","0">>,
    <<"M","1",":","2",":","A",":",":","0">>,
    <<"M","1",":","2",":","A">>,
    <<"M","1",":","2",":","A",":",EAcute,".",".",".",":","0">>,
    <<"M","1",":","2",":","A",":",EAcute,".",".",".",".",":","0">> }

(* lines that are not bounded by the frame marker *)
BrokenFrames ==
  { <<"K","7","a","|">>,
    <<"|","K","7","a">>,
    <<>> }

(* physical lines of an inputs text: frames that decode, frames that do not, *)
(* and lines that do not start with the frame marker                        *)
InputsLines ==
  { <<"|","K","7","a","|">>,
    <<"|">>,
    <<"|","X","|">>,
    <<"|","K","z","z","|">>,
    <<"#","c">>,
    <<>>,
    <<"K","7","a">> }

(* all sequences over S of length at most n *)
RECURSIVE SeqsUpTo(_, _)
SeqsUpTo(S, n) ==
  IF n = 0 THEN {<<>>}
  ELSE LET shorter == SeqsUpTo(S, n - 1)
       IN  shorter \cup {Append(q, x) : q \in {r \in shorter : Len(r) = n - 1}, x \in S}

(* a group text: the header, then each line after a line feed *)
SectionText(header, lines) ==
  header \o Concat([i \in 1..Len(lines) |-> <<LF>> \o lines[i]])

(* a frame line: the marker, then each token followed by the marker *)
FrameText(tokens) ==
  <<"|">> \o Concat([i \in 1..Len(tokens) |-> tokens[i] \o <<"|">>])

(* an inputs text: the lines, with a line feed between them *)
InputsText(lines) ==
  Concat([i \in 1..Len(lines) |-> (IF i = 1 THEN <<>> ELSE <<LF>>) \o lines[i]])

(* the texts handed to the decoders, each with the decoders it is meant for *)
CodecArgs ==
  {[of |-> "section", text |-> SectionText(h, ls)] :
      h \in SectionHeaders, ls \in SeqsUpTo(SectionLines, MaxLines)}
  \cup {[of |-> "frame", text |-> FrameText(ts)] : ts \in SeqsUpTo(FrameTokens, MaxTokens)}
  \cup {[of |-> "frame", text |-> f] : f \in BrokenFrames}
  \cup {[of |-> "token", text |-> tk] : tk \in FrameTokens \cup MouseTokens}
  \cup {[of |-> "inputs", text |-> InputsText(ls)] :
           ls \in SeqsUpTo(InputsLines, MaxInputLines)}

(***************************************************************************)
(* State.                                                                  *)
(*   phase    idle, loading, loaded (load_movie returned Ok), failed       *)
(*            (it returned Err), built (the consumer made a Session)       *)
(*   source   where load_movie reads: "file", whose entries are not known  *)
(*            in advance, or "bytes", the output of compress               *)
(*   archive  the entries the reader has yielded so far, in order          *)
(*   rest     the entries of the bytes still to come                       *)
(*   movie    load_movie's local movie                                     *)
(*   loaded   load_movie's local loaded                                    *)
(*   result   what load_movie returned                                     *)
(*   loads    calls of load_movie so far                                   *)
(*   session  the Session given to compress, if any                        *)
(*   origin   where that Session came from: none, decoded, built           *)
(*   arg, op, ret, enc   a text, the decoder applied to it, what the       *)
(*            decoder returned, and the re-encoding of the decoded value   *)
(***************************************************************************)
VARIABLES phase, source, archive, rest, movie, loaded, result, loads,
          session, origin, arg, op, ret, enc

loadVars == <<phase, source, archive, rest, movie, loaded, result, loads, session, origin>>
codecVars == <<arg, op, ret, enc>>
vars == <<phase, source, archive, rest, movie, loaded, result, loads,
          session, origin, arg, op, ret, enc>>

NoArg == [of |-> "none", text |-> <<>>]

InitLoad ==
  /\ phase = "idle"
  /\ source = "file"
  /\ archive = <<>>
  /\ rest = <<>>
  /\ movie = MovieDefault
  /\ loaded = <<FALSE, FALSE, FALSE, FALSE>>
  /\ result = NoResult
  /\ loads = 0
  /\ session = None
  /\ origin = "none"

Init ==
  /\ InitLoad
  /\ arg = NoArg
  /\ op = "none"
  /\ ret = NoResult
  /\ enc = None

(***************************************************************************)
(* load_movie, one action per step of its loop.                            *)
(***************************************************************************)
(* File::open or archive.entries() fails *)
OpenFails ==
  /\ phase = "idle"
  /\ phase' = "failed"
  /\ result' = Err(LoadError("FileError", <<>>))
  /\ loads' = loads + 1
  /\ UNCHANGED <<source, archive, rest, movie, loaded, session, origin, codecVars>>

(* load_movie opens the file and starts with the default movie *)
Open ==
  /\ phase = "idle"
  /\ phase' = "loading"
  /\ source' = "file"
  /\ movie' = MovieDefault
  /\ loaded' = <<FALSE, FALSE, FALSE, FALSE>>
  /\ loads' = loads + 1
  /\ UNCHANGED <<archive, rest, result, session, origin, codecVars>>

(* the entries the iterator may yield next *)
Upcoming ==
  IF phase # "loading" THEN {}
  ELSE IF source = "file"
       THEN (IF Len(archive) < MaxEntries THEN FileEntries ELSE {})
       ELSE (IF rest # <<>> THEN {Head(rest)} ELSE {})

(* the iterator has no further entry *)
Exhausted == phase = "loading" /\ (source = "file" \/ rest = <<>>)

Consume(e) ==
  /\ archive' = Append(archive, e)
  /\ rest' = IF source = "file" THEN rest ELSE Tail(rest)

Return(r) ==
  /\ result' = r
  /\ phase' = IF r.ok THEN "loaded" ELSE "failed"

(* the entry or its bytes cannot be read *)
EntryUnreadable ==
  \E e \in Upcoming :
    /\ e.status \in {"entry_err", "read_err"}
    /\ Consume(e)
    /\ Return(Err(LoadError("InvalidArchive", <<>>)))
    /\ UNCHANGED <<source, movie, loaded, loads, session, origin, codecVars>>

(* entry.path() is Err *)
PathUnreadable ==
  \E e \in Upcoming :
    /\ e.status = "path_err"
    /\ Consume(e)
    /\ Return(Err(LoadError("InvalidArchive", <<>>)))
    /\ UNCHANGED <<source, movie, loaded, loads, session, origin, codecVars>>

(* LibTASMovie::load_config *)
load_config(string) == Config_from_str(string)

(* LibTASMovie::load_inputs *)
load_inputs(string) == Inputs_from_str(string)

(* the arm of "config.ini" *)
LoadConfigEntry ==
  \E e \in Upcoming :
    /\ e.status = "ok" /\ e.name = NameConfig
    /\ Consume(e)
    /\ loaded' = [loaded EXCEPT ![1] = TRUE]
    /\ LET r == load_config(e.text)
       IN  IF r.ok
           THEN movie' = [movie EXCEPT !.config = Val(r)]
                /\ UNCHANGED <<phase, result>>
           ELSE Return(Err(LoadError("InvalidConfig", Some(ErrOf(r)))))
                /\ UNCHANGED movie
    /\ UNCHANGED <<source, loads, session, origin, codecVars>>

(* LoadInputsEntry with a slip: a text that does not decode is passed over *)
LoadInputsEntry_Continues ==
  \E e \in Upcoming :
    /\ e.status = "ok" /\ e.name = NameInputs
    /\ Consume(e)
    /\ loaded' = [loaded EXCEPT ![2] = TRUE]
    /\ LET r == load_inputs(e.text)
       IN  movie' = IF r.ok THEN [movie EXCEPT !.inputs = Val(r)] ELSE movie
    /\ UNCHANGED <<phase, result, source, loads, session, origin, codecVars>>

(* the arm of "inputs" *)
LoadInputsEntry ==
  \E e \in Upcoming :
    /\ e.status = "ok" /\ e.name = NameInputs
    /\ Consume(e)
    /\ loaded' = [loaded EXCEPT ![2] = TRUE]
    /\ LET r == load_inputs(e.text)
       IN  IF r.ok
           THEN movie' = [movie EXCEPT !.inputs = Val(r)]
                /\ UNCHANGED <<phase, result>>
           ELSE Return(Err(LoadError("InvalidInputs", Some(ErrOf(r)))))
                /\ UNCHANGED movie
    /\ UNCHANGED <<source, loads, session, origin, codecVars>>

(* the arm of "annotations.txt" *)
LoadAnnotationsEntry ==
  \E e \in Upcoming :
    /\ e.status = "ok" /\ e.name = NameAnnotations
    /\ Consume(e)
    /\ loaded' = [loaded EXCEPT ![3] = TRUE]
    /\ movie' = [movie EXCEPT !.annotations = e.text]
    /\ UNCHANGED <<phase, source, result, loads, session, origin, codecVars>>

(* the arm of "editor.ini" *)
LoadEditorEntry ==
  \E e \in Upcoming :
    /\ e.status = "ok" /\ e.name = NameEditor
    /\ Consume(e)
    /\ loaded' = [loaded EXCEPT ![4] = TRUE]
    /\ movie' = [movie EXCEPT !.editor = e.text]
    /\ UNCHANGED <<phase, source, result, loads, session, origin, codecVars>>

(* the name is one of the four members *)
IsMember(name) == \E i \in 1..Len(MemberNames) : MemberNames[i] = name

(* ExtraEntry with a slip: an entry of any other name is skipped *)
ExtraEntry_Skipped ==
  \E e \in Upcoming :
    /\ e.status = "ok" /\ ~IsMember(e.name)
    /\ Consume(e)
    /\ UNCHANGED <<phase, result, source, movie, loaded, loads, session, origin, codecVars>>

(* the arm Ok(_path): any other name *)
ExtraEntry ==
  \E e \in Upcoming :
    /\ e.status = "ok" /\ ~IsMember(e.name)
    /\ Consume(e)
    /\ Return(Err(LoadError("ExtraEntry", <<>>)))
    /\ UNCHANGED <<source, movie, loaded, loads, session, origin, codecVars>>

(* AllLoaded with a slip: the flag of editor.ini is not tested *)
AllLoaded_IgnoresEditor(flags) == flags[1] /\ flags[2] /\ flags[3]

(* the test after the loop: all four members were seen *)
AllLoaded(flags) == flags = <<TRUE, TRUE, TRUE, TRUE>>

(* FinalResult with a richer error: InsufficientEntry carries the flags *)
FinalResult_CarriesFlags(flags, m) ==
  IF ~AllLoaded(flags) THEN Err(LoadError("InsufficientEntry", Some(flags))) ELSE Ok(m)

(* what load_movie returns once the entries are consumed *)
FinalResult(flags, m) ==
  IF ~AllLoaded(flags) THEN Err(LoadError("InsufficientEntry", <<>>)) ELSE Ok(m)

(* the loop ends *)
EndOfEntries ==
  /\ Exhausted
  /\ Return(FinalResult(loaded, movie))
  /\ UNCHANGED <<source, archive, rest, movie, loaded, loads, session, origin, codecVars>>

(* a consumer builds a Session itself *)
BuildSession ==
  /\ phase = "idle"
  /\ \E s \in BuiltSessions : session' = Some(s)
  /\ origin' = "built"
  /\ phase' = "built"
  /\ UNCHANGED <<source, archive, rest, movie, loaded, result, loads, codecVars>>

(* compress the Session held (the one load_movie returned, or the one      *)
(* built), and call load_movie on the bytes                                *)
CompressAndLoad ==
  /\ phase \in {"loaded", "built"}
  /\ loads < MaxLoads
  /\ LET s == IF phase = "loaded" THEN Val(result) ELSE session[1]
     IN  /\ session' = Some(s)
         /\ rest' = compress(s)
  /\ origin' = IF phase = "loaded" THEN "decoded" ELSE origin
  /\ source' = "bytes"
  /\ archive' = <<>>
  /\ movie' = MovieDefault
  /\ loaded' = <<FALSE, FALSE, FALSE, FALSE>>
  /\ result' = NoResult
  /\ phase' = "loading"
  /\ loads' = loads + 1
  /\ UNCHANGED codecVars

Next ==
  \/ OpenFails
  \/ Open
  \/ EntryUnreadable
  \/ PathUnreadable
  \/ LoadConfigEntry
  \/ LoadInputsEntry
  \/ LoadAnnotationsEntry
  \/ LoadEditorEntry
  \/ ExtraEntry
  \/ EndOfEntries
  \/ BuildSession
  \/ CompressAndLoad

Spec == Init /\ [][Next]_vars

(***************************************************************************)
(* The decoders on their own: a text is drawn, one decoder is applied to   *)
(* it, and a decoded value is encoded again.                               *)
(***************************************************************************)
InitCodec ==
  /\ InitLoad
  /\ arg \in CodecArgs
  /\ op = "none"
  /\ ret = NoResult
  /\ enc = None

Apply(name, r) ==
  /\ op = "none"
  /\ op' = name
  /\ ret' = r
  /\ UNCHANGED <<arg, enc, loadVars>>

DecodeGeneral ==
  arg.of = "section" /\ Apply("GeneralConfig", GeneralConfig_from_str(arg.text))

DecodeTimetrack ==
  arg.of = "section" /\ Apply("TimetrackConfig", TimetrackConfig_from_str(arg.text))

DecodeKeyboard ==
  arg.of = "token" /\ Apply("KeyboardInput", KeyboardInput_from_str(arg.text))

DecodeMouse ==
  arg.of = "token" /\ Apply("MouseInput", MouseInput_from_str(arg.text))

DecodeInput ==
  arg.of = "frame" /\ Apply("Input", Input_from_str(arg.text))

DecodeInputs ==
  arg.of = "inputs" /\ Apply("Inputs", Inputs_from_str(arg.text))

(* Display of the decoded value *)
Format(name, v) ==
  CASE name = "GeneralConfig" -> GeneralConfig_fmt(v)
    [] name = "TimetrackConfig" -> TimetrackConfig_fmt(v)
    [] name = "KeyboardInput" -> KeyboardInput_fmt(v)
    [] name = "MouseInput" -> MouseInput_fmt(v)
    [] name = "Input" -> Input_fmt(v)
    [] name = "Inputs" -> Inputs_fmt(v)

Encode ==
  /\ op # "none" /\ ret.ok /\ enc = None
  /\ enc' = Some(Format(op, Val(ret)))
  /\ UNCHANGED <<arg, op, ret, loadVars>>

NextCodec ==
  \/ DecodeGeneral
  \/ DecodeTimetrack
  \/ DecodeKeyboard
  \/ DecodeMouse
  \/ DecodeInput
  \/ DecodeInputs
  \/ Encode

SpecCodec == InitCodec /\ [][NextCodec]_vars

(***************************************************************************)
(* Properties of load_movie and compress, checked under Spec.              *)
(***************************************************************************)
(* load_movie has returned *)
Returned == phase \in {"loaded", "failed"}

(* load_movie has returned after reading entries (the file was opened) *)
ReturnedFromArchive == Returned /\ (result.ok \/ ErrOf(result).kind # "FileError")

ErrKind == IF result.ok \/ result.err = <<>> THEN "" ELSE ErrOf(result).kind

(* an entry load_movie accepts: readable, one of the four names, and, for  *)
(* config.ini and inputs, a text that decodes                              *)
Acceptable(e) ==
  /\ e.status = "ok"
  /\ IsMember(e.name)
  /\ e.name = NameConfig => Config_from_str(e.text).ok
  /\ e.name = NameInputs => Inputs_from_str(e.text).ok

(* the member names that no entry read so far carries *)
Missing == {n \in {NameConfig, NameInputs, NameAnnotations, NameEditor} :
              \A i \in 1..Len(archive) : archive[i].name # n}

AllAcceptable == \A i \in 1..Len(archive) : Acceptable(archive[i])

(* C1: round trip.  When the Session that load_movie returned is           *)
(* compressed and the bytes are loaded, load_movie returns a Session equal *)
(* to the first one in every field.                                        *)
C1_RoundTrip ==
  (Returned /\ source = "bytes" /\ origin = "decoded")
    => (result.ok /\ Val(result) = session[1])

(* C2: canonicalization idempotence.  For every Session, decoded or built  *)
(* directly, loading its compressed form succeeds, and encoding the result *)
(* reproduces the config and inputs texts that compress wrote.             *)
C2_Idempotent ==
  (Returned /\ source = "bytes")
    => /\ result.ok
       /\ Config_fmt(Val(result).config) = compress(session[1])[1].text
       /\ Inputs_fmt(Val(result).inputs) = compress(session[1])[2].text

(* C3: no partial success.  load_movie returns a Session exactly when      *)
(* every entry is acceptable and each of the four names occurred; it       *)
(* returns either a Session or an error, never both; and when every entry  *)
(* is acceptable but a name is missing the error is InsufficientEntry.     *)
C3_NoPartialSuccess ==
  ReturnedFromArchive
    => /\ result.ok <=> (AllAcceptable /\ Missing = {})
       /\ result.ok => (result.val # <<>> /\ result.err = <<>>)
       /\ ~result.ok => (result.val = <<>> /\ result.err # <<>>)
       /\ (AllAcceptable /\ Missing # {}) => ErrKind = "InsufficientEntry"

(* C3 witness: three acceptable entries were read, a member is missing,    *)
(* and load_movie returned InsufficientEntry.                              *)
C3_Witness ==
  /\ phase = "failed" /\ source = "file"
  /\ Len(archive) = 3 /\ AllAcceptable /\ Missing # {}
  /\ ErrKind = "InsufficientEntry"

(* C4 as claimed: the error returned for missing members names them.       *)
C4_ErrorNamesMissing ==
  (phase = "failed" /\ ErrKind = "InsufficientEntry")
    => ErrOf(result).cause = Some(Missing)

(* C4 as amended: whichever members are missing, the error is the one      *)
(* value InsufficientEntry, which carries nothing.                         *)
C4_InsufficientEntryIsCoarse ==
  (ReturnedFromArchive /\ AllAcceptable /\ Missing # {})
    => (~result.ok /\ ErrOf(result) = LoadError("InsufficientEntry", <<>>))

(* C4 witness: only editor.ini is missing, and the error names nothing.    *)
C4_Witness ==
  /\ phase = "failed" /\ source = "file"
  /\ AllAcceptable /\ Missing = {NameEditor}
  /\ ErrOf(result) = LoadError("InsufficientEntry", <<>>)

(* C5: closed member set.  Once a readable entry with an unexpected name   *)
(* has been read, load_movie returns no Session; and when all the other    *)
(* entries read are acceptable the error is ExtraEntry, wherever the       *)
(* unexpected entry sits.                                                  *)
Unexpected(e) == e.status = "ok" /\ ~IsMember(e.name)

C5_ClosedMemberSet ==
  (Returned /\ \E i \in 1..Len(archive) : Unexpected(archive[i]))
    => /\ ~result.ok
       /\ (\A i \in 1..Len(archive) : Unexpected(archive[i]) \/ Acceptable(archive[i]))
            => ErrKind = "ExtraEntry"

(* C5 witness: the four members were read and accepted, then an unexpected *)
(* fifth entry, and load_movie returned ExtraEntry.                        *)
C5_Witness ==
  /\ phase = "failed" /\ Len(archive) = 5
  /\ Unexpected(archive[5])
  /\ \A i \in 1..4 : Acceptable(archive[i])
  /\ {archive[i].name : i \in 1..4} = {NameConfig, NameInputs, NameAnnotations, NameEditor}
  /\ ErrKind = "ExtraEntry"

(* C6: a successful load_movie read exactly four entries, one for each of  *)
(* the four names.                                                         *)
C6_ExactlyFour ==
  phase = "loaded"
    => /\ Len(archive) = 4
       /\ \A i, j \in 1..Len(archive) : archive[i].name = archive[j].name => i = j

(***************************************************************************)
(* Properties of the decoders, checked under SpecCodec.                    *)
(***************************************************************************)
SectionOp == op \in {"GeneralConfig", "TimetrackConfig"}
MarkerOf(name) == IF name = "GeneralConfig" THEN GeneralMarker ELSE TimetrackMarker
SchemaOf(name) == IF name = "GeneralConfig" THEN GeneralSchema ELSE TimetrackSchema

(* the lines of the text after its first line *)
BodyLines == Skip1(Lines(arg.text))

(* the line holds no '=' *)
NoEq(l) == \A k \in 1..Len(l) : l[k] # "="

(* the line sets a declared key to a value that does not parse *)
BadValue(l, schema) ==
  /\ ~NoEq(l)
  /\ LET kv == SplitOnce(l, <<"=">>)[1]
         row == SchemaRow(schema, kv[1])
     IN  row # 0 /\ ~ParseValue(schema[row].type, kv[2]).ok

FirstLineIsMarker == Lines(arg.text) # <<>> /\ Lines(arg.text)[1] = MarkerOf(op)

C8_HeaderExact ==
  SectionOp
    => /\ ret.ok => FirstLineIsMarker
       /\ ~FirstLineIsMarker => (~ret.ok /\ ErrOf(ret) = MarkerOf(op))

(* C9: the keyboard token "K" decodes to an empty key list, and the frame  *)
(* line "|K|" to a frame whose keyboard is present and holds no key.       *)
C9_EmptyKeyList ==
  /\ (op = "KeyboardInput" /\ arg.text = <<"K">>) => (ret.ok /\ Val(ret) = <<>>)
  /\ (op = "Input" /\ arg.text = <<"|", "K", "|">>)
       => (ret.ok /\ Val(ret) = [keyboard |-> Some(<<>>), mouse |-> None])

(* C10 as claimed: the frame line "||" decodes to the frame with no        *)
(* keyboard and no mouse.                                                  *)
C10_TwoMarkers ==
  (op = "Input" /\ arg.text = <<"|", "|">>) => (ret.ok /\ Val(ret) = InputDefault)

(* C10 as amended: the frame line "|" decodes to the frame with no         *)
(* keyboard and no mouse; the line "||" does not decode: the error is Line *)
(* carrying its empty interior.                                            *)
C10_SingleMarker ==
  op = "Input"
    => /\ arg.text = <<"|">> => (ret.ok /\ Val(ret) = InputDefault)
       /\ arg.text = <<"|", "|">> => (~ret.ok /\ ErrOf(ret) = LineError(<<>>))

(* C10 witness: "|" was decoded, to the frame with no keyboard and mouse.  *)
C10_Witness ==
  op = "Input" /\ arg.text = <<"|">> /\ ret.ok /\ Val(ret) = InputDefault

(* the tokens t1, ..., tn of a frame line |t1|...|tn| *)
TokensOf(text) == Split(SubSeq(text, 2, Len(text) - 1), "|")

(* the text is a frame line |t1|...|tn| with at least one token *)
IsTokenLine(text) ==
  Len(text) >= 2 /\ StartsWith(text, <<"|">>) /\ EndsWith(text, <<"|">>)

FirstChar(tk) == IF tk = <<>> THEN "" ELSE Head(tk)

(* the token starts with one of the five markers, and decodes if K or M *)
TokenOk(tk) ==
  /\ FirstChar(tk) \in {"K", "M", "C", "F", "T"}
  /\ FirstChar(tk) = "K" => KeyboardInput_from_str(tk).ok
  /\ FirstChar(tk) = "M" => MouseInput_from_str(tk).ok

(* the positions of the tokens that start with the marker c *)
Marked(tokens, c) == {i \in 1..Len(tokens) : FirstChar(tokens[i]) = c}

Last(S) == CHOOSE i \in S : \A j \in S : j <= i

(* C11: sub-field dispatch.  A frame line |t1|...|tn| decodes exactly when *)
(* every token starts with K, M, C, F or T and every K and M token         *)
(* decodes; an empty token or another first character makes it fail; the   *)
(* decoded keyboard and mouse are those of the last K and the last M       *)
(* token, so the C, F and T tokens change nothing, whatever their payload.  *)
C11_SubfieldDispatch ==
  (op = "Input" /\ IsTokenLine(arg.text))
    => LET tokens == TokensOf(arg.text)
           ks == Marked(tokens, "K")
           ms == Marked(tokens, "M")
       IN  /\ ret.ok <=> \A i \in 1..Len(tokens) : TokenOk(tokens[i])
           /\ ret.ok =>
                /\ Val(ret).keyboard =
                     IF ks = {} THEN None
                     ELSE Some(Val(KeyboardInput_from_str(tokens[Last(ks)])))
                /\ Val(ret).mouse =
                     IF ms = {} THEN None
                     ELSE Some(Val(MouseInput_from_str(tokens[Last(ms)])))

(* C11 witness: a line with a keyboard token and a reserved token whose    *)
(* payload is no key list decoded to the keyboard alone.                   *)
C11_Witness ==
  /\ op = "Input"
  /\ arg.text = <<"|", "K", "7", "a", "|", "C", "K", "z", "z", "|">>
  /\ ret.ok
  /\ Val(ret) = [keyboard |-> Some(<<122>>), mouse |-> None]

(* the physical line starts with the frame marker *)
IsFrameLine(l) == StartsWith(l, <<"|">>)

(* the physical lines of the text that start with the frame marker *)
FrameLinesOf(text) == SelectSeq(Split(text, LF), IsFrameLine)

(* C12: sequence decode.  When Inputs::from_str succeeds the result is the *)
(* decoded frame of each physical line that starts with '|', in order;     *)
(* when one of those lines does not decode it fails with the error of the  *)
(* first such line; and the lines that do not start with '|' may be        *)
(* removed without changing what is returned.                              *)
C12_SequenceDecode ==
  op = "Inputs"
    => LET fl == FrameLinesOf(arg.text)
           bad == {i \in 1..Len(fl) : ~Input_from_str(fl[i]).ok}
       IN  /\ ret.ok <=> bad = {}
           /\ ret.ok => Val(ret) = [i \in 1..Len(fl) |-> Val(Input_from_str(fl[i]))]
           /\ ~ret.ok =>
                /\ ret.val = <<>>
                /\ ret.err = Input_from_str(fl[CHOOSE i \in bad : \A j \in bad : i <= j]).err
           /\ ret = Inputs_from_str(InputsText(fl))

(* C12 witness: a comment line between two frames; two frames decoded.     *)
C12_Witness ==
  /\ op = "Inputs"
  /\ arg.text = <<"|", "K", "7", "a", "|", LF, "#", "c", LF, "|">>
  /\ ret.ok
  /\ Val(ret) = <<[keyboard |-> Some(<<122>>), mouse |-> None], InputDefault>>

DefaultOf(name) ==
  IF name = "GeneralConfig" THEN GeneralConfigDefault ELSE TimetrackConfigDefault

(* the line is key=value with a key the schema does not declare *)
UnknownKey(l, schema) ==
  ~NoEq(l) /\ SchemaRow(schema, SplitOnce(l, <<"=">>)[1][1]) = 0

(* the text of the given lines, each ended by a line feed *)
Unlines(ls) == Concat([i \in 1..Len(ls) |-> ls[i] \o <<LF>>])

(* the text without its lines of unknown key *)
WithoutUnknown(text, schema) ==
  Unlines(<<Lines(text)[1]>> \o
          SelectSeq(Skip1(Lines(text)), LAMBDA l : ~UnknownKey(l, schema)))

MouseFields(text) == Split(Tail(text), ":")

(* the token starts with M and its position and mode fields are valid *)
MouseHeadOk(text) ==
  /\ StartsWith(text, <<"M">>)
  /\ Len(MouseFields(text)) >= 3
  /\ ParseI32(MouseFields(text)[1]).ok
  /\ ParseI32(MouseFields(text)[2]).ok
  /\ ReferenceMode_from_str(MouseFields(text)[3]).ok

(* the button field: the fourth field, empty when there is none *)
ButtonField(text) ==
  IF Len(MouseFields(text)) >= 4 THEN MouseFields(text)[4] ELSE <<>>

(* C14: mouse button field.  Decoding a mouse token fails whenever its     *)
(* fourth field is not exactly 5 characters long; when it is (and the      *)
(* fields before it are valid), button i is pressed exactly when the i-th  *)
(* character is not '.'; and the encoding of the decoded value has the     *)
(* digit i or '.' at position i of the button field and ends with ":0".    *)
C14_MouseButtons ==
  (op = "MouseInput" /\ MouseHeadOk(arg.text))
    => LET b == ButtonField(arg.text)
       IN  /\ Len(b) # 5 => ~ret.ok
           /\ Len(b) = 5 =>
                /\ ret.ok
                /\ Val(ret).left_click = (b[1] # ".")
                /\ Val(ret).middle_click = (b[2] # ".")
                /\ Val(ret).right_click = (b[3] # ".")
                /\ Val(ret).button4 = (b[4] # ".")
                /\ Val(ret).button5 = (b[5] # ".")
           /\ (ret.ok /\ enc # None) =>
                LET e == ButtonField(enc[1])
                    v == Val(ret)
                IN  /\ e = << IF v.left_click THEN "1" ELSE ".",
                              IF v.middle_click THEN "2" ELSE ".",
                              IF v.right_click THEN "3" ELSE ".",
                              IF v.button4 THEN "4" ELSE ".",
                              IF v.button5 THEN "5" ELSE "." >>
                    /\ EndsWith(enc[1], <<":", "0">>)

(* the error the loop returns at an entry that is not acceptable: the      *)
(* readability of the entry is looked at before its name                   *)
FaultOf(e) ==
  IF e.status # "ok" THEN LoadError("InvalidArchive", <<>>)
  ELSE IF ~IsMember(e.name) THEN LoadError("ExtraEntry", <<>>)
  ELSE IF e.name = NameConfig
       THEN LoadError("InvalidConfig", Some(ErrOf(Config_from_str(e.text))))
  ELSE LoadError("InvalidInputs", Some(ErrOf(Inputs_from_str(e.text))))

(* the flags say which member names the readable entries read so far carry *)
FlagsFollowEntries ==
  \A k \in 1..4 :
    loaded[k] = (\E i \in 1..Len(archive) :
                   archive[i].status = "ok" /\ archive[i].name = MemberNames[k])

(* C15: error precedence follows archive order.  While load_movie walks    *)
(* the entries every entry read so far is acceptable; when it fails after  *)
(* opening the file, either every entry read is acceptable, no entry is    *)
(* left and the error is InsufficientEntry, or the last entry read is the  *)
(* first that is not acceptable and the error is the one of that entry     *)
(* (InvalidArchive for an unreadable entry whatever its name, ExtraEntry,  *)
(* InvalidConfig or InvalidInputs with the decoder's error); no entry      *)
(* after it is read.                                                       *)
C15_ArchiveOrder ==
  /\ (phase = "loading" \/ (phase = "loaded" /\ loads > 0)) => AllAcceptable
  /\ (phase \in {"loading", "loaded", "failed"} /\ ErrKind # "FileError" /\ loads > 0)
       => FlagsFollowEntries
  /\ (phase = "failed" /\ ErrKind # "FileError")
       => IF AllAcceptable
          THEN /\ ErrKind = "InsufficientEntry"
               /\ Missing # {}
               /\ source = "bytes" => rest = <<>>
          ELSE /\ \A i \in 1..(Len(archive) - 1) : Acceptable(archive[i])
               /\ ~Acceptable(archive[Len(archive)])
               /\ ErrOf(result) = FaultOf(archive[Len(archive)])
               /\ source = "bytes" => Len(archive) + Len(rest) = Len(MemberNames)

(* an unreadable entry named config.ini, after an acceptable entry, gives  *)
(* InvalidArchive and leaves the flag of config.ini unset                  *)
C15_Witness ==
  /\ phase = "failed"
  /\ Len(archive) = 2
  /\ Acceptable(archive[1])
  /\ archive[2].status = "read_err" /\ archive[2].name = NameConfig
  /\ ErrKind = "InvalidArchive"
  /\ ~loaded[1]

=============================================================================
